---- MODULE Spec2Model ----
(***************************************************************************)
(* Model of src/bot.py: a Telegram bot that shows an inline menu of report *)
(* categories, asks a text-generation API for a report, and lets admins    *)
(* broadcast a message to every user recorded in table tg_users.           *)
(*                                                                         *)
(* Text values are sequences of strings.  Callback tokens and category     *)
(* keys are sequences of one-character strings, so that startswith() and   *)
(* split(":", 1) are computed as the code computes them.  Literal message  *)
(* texts are one-element sequences holding the literal (non-ASCII          *)
(* characters of the literals are written in ASCII).                       *)
(***************************************************************************)
EXTENDS Integers, Sequences, FiniteSets, TLC

\* ------------------------------------------------------------------ bounds
\* Number of updates (commands, button presses) handled in one behaviour.
MaxTasks == 2

\* Ids that may own a row of tg_users / a private chat with the bot.
UserIds == {1, 2, 3}
\* Ids that send updates in the modelled window.
Senders == {1, 2}
\* ADMIN_IDS is read from the environment; this deployment names one admin.
ADMIN_IDS == {1}

\* ------------------------------------------------------------ text helpers
Whitespace == {" ", "\n", "\t"}

StartsWith(s, p) == Len(s) >= Len(p) /\ SubSeq(s, 1, Len(p)) = p

\* data.split(":", 1)[1]: everything after the first ":" of data.
SplitOnce(data) ==
    LET i == CHOOSE j \in 1..Len(data) :
                 data[j] = ":" /\ \A k \in 1..(j-1) : data[k] # ":"
    IN SubSeq(data, i + 1, Len(data))

\* Faulty variant: str.lstrip().
StripLeading(s) ==
    LET keep == {i \in 1..Len(s) : s[i] \notin Whitespace}
    IN IF keep = {} THEN <<>>
       ELSE SubSeq(s, CHOOSE i \in keep : \A j \in keep : i <= j, Len(s))

\* str.strip(): drop leading and trailing whitespace characters.
Strip(s) ==
    LET keep == {i \in 1..Len(s) : s[i] \notin Whitespace}
    IN IF keep = {} THEN <<>>
       ELSE LET lo == CHOOSE i \in keep : \A j \in keep : i <= j
                hi == CHOOSE i \in keep : \A j \in keep : i >= j
            IN SubSeq(s, lo, hi)

\* " ".join(args)
RECURSIVE Join(_)
Join(args) ==
    IF args = <<>> THEN <<>>
    ELSE IF Len(args) = 1 THEN args[1]
    ELSE args[1] \o <<" ">> \o Join(Tail(args))

\* ------------------------------------------------------------- categories
CAT_PREFIX == <<"c", "a", "t", ":">>
REGEN_PREFIX == <<"r", "e", "g", "e", "n", ":">>
BACK_MENU == <<"b", "a", "c", "k", ":", "m", "e", "n", "u">>
HOME == <<"h", "o", "m", "e">>
HELP == <<"h", "e", "l", "p">>

\* REPORT_CATEGORIES, in insertion order.
REPORT_CATEGORIES ==
    << [k |-> <<"s", "p", "a", "m">>, v |-> <<"Spam report">>],
       [k |-> <<"h", "a", "r", "a", "s", "s", "m", "e", "n", "t">>,
        v |-> <<"Harassment/Threat">>],
       [k |-> <<"i", "l", "l", "e", "g", "a", "l">>, v |-> <<"Illegal content">>],
       [k |-> <<"u", "n", "o", "f", "f", "i", "c", "i", "a", "l">>,
        v |-> <<"Use of unofficial apps">>],
       [k |-> <<"m", "a", "l", "w", "a", "r", "e">>,
        v |-> <<"Sending malicious content / malware">>] >>

\* REPORT_CATEGORIES.get(cat, cat)
ReasonFor(cat) ==
    IF \E i \in 1..Len(REPORT_CATEGORIES) : REPORT_CATEGORIES[i].k = cat
    THEN LET i == CHOOSE j \in 1..Len(REPORT_CATEGORIES) : REPORT_CATEGORIES[j].k = cat
         IN REPORT_CATEGORIES[i].v
    ELSE cat

\* -------------------------------------------------------------- keyboards
Button(label, callback_data) == [label |-> label, callback_data |-> callback_data]

\* reply_markup=None
NoMarkup == <<>>

\* Faulty variant: the Help row is not appended.
main_menu_without_help ==
    [i \in 1..Len(REPORT_CATEGORIES) |->
        << Button(REPORT_CATEGORIES[i].v, CAT_PREFIX \o REPORT_CATEGORIES[i].k) >>]

main_menu_keyboard ==
    [i \in 1..Len(REPORT_CATEGORIES) |->
        << Button(REPORT_CATEGORIES[i].v, CAT_PREFIX \o REPORT_CATEGORIES[i].k) >>]
    \o << << Button(<<"Help">>, HELP) >> >>

\* Faulty variant: Regenerate encodes the reason text instead of the key.
report_item_keyboard_by_reason(cat_key) ==
    << << Button(<<"Regenerate">>, REGEN_PREFIX \o ReasonFor(cat_key)),
          Button(<<"Back">>, BACK_MENU) >>,
       << Button(<<"Home">>, HOME) >> >>

report_item_keyboard(cat_key) ==
    << << Button(<<"Regenerate">>, REGEN_PREFIX \o cat_key),
          Button(<<"Back">>, BACK_MENU) >>,
       << Button(<<"Home">>, HOME) >> >>

\* The callback tokens a keyboard offers.
TokensOf(markup) ==
    {markup[r][c].callback_data : <<r, c>> \in
        {rc \in (DOMAIN markup) \X (1..2) : rc[2] \in DOMAIN markup[rc[1]]}}

\* ------------------------------------------------------------ message texts
WelcomeText ==
    << "Hi - this bot helps generate formal WhatsApp report & appeal messages.\n\n",
       "Choose the issue you want to report from the menu below. ",
       "Each report button will generate a ready-to-send report message." >>
HelpCmdText == <<"Choose an issue from the menu below.">>
HelpCallbackText ==
    << "This bot generates report text only. Use Regenerate to get a new report, ",
       "Back to return to report list, Home for main menu." >>
GeneratingText == <<"Generating report message... (hourglass)">>
RegeneratingText == <<"Regenerating report message... (hourglass)">>
BackText == <<"Back to report menu:">>
HomeText == <<"Main menu:">>
UnknownActionText == <<"Unknown action.">>
NotAuthorizedText == <<"You are not authorized to broadcast.">>
UsageText == <<"Usage: /broadcast <message>">>
DbNotReadyText == <<"Database not ready.">>
StatusText == <<"Bot is running.">>
UseMenuText == <<"Use the menu:">>

\* f"Error generating report: {e}" and f"Error regenerating: {e}"
ErrorGeneratingText(e) == <<"Error generating report: ">> \o e.msg
ErrorRegeneratingText(e) == <<"Error regenerating: ">> \o e.msg
\* f"Broadcasting to {len(user_ids)} users..."
BroadcastingText(n) == <<"Broadcasting to ", ToString(n), " users...">>
\* f"Done. Sent: {sent}, Failed: {failed}"
DoneText(sent, failed) ==
    <<"Done. Sent: ", ToString(sent), ", Failed: ", ToString(failed)>>

Message(text, markup) == [text |-> text, markup |-> markup]

\* ---------------------------------------------------------- remote generator
\* What genai.Client().models.generate_content can do when it settles:
\* return a response whose .text is a string, a response whose .text is None,
\* a response without a .text attribute (str(response) is used), or raise.
RawTexts == { <<" ", "A", " ", "B", "\n">> }
ResponseRepr == <<"<", "r", ">">>
RemoteOutcomes ==
    {[kind |-> "text", val |-> raw] : raw \in RawTexts}
    \cup {[kind |-> "none", val |-> <<>>],
          [kind |-> "notext", val |-> ResponseRepr],
          [kind |-> "raise", val |-> <<"network unreachable">>]}
NoOutcome == [kind |-> "pending", val |-> <<>>]

Exc(type, msg) == [type |-> type, msg |-> msg]
NoExc == Exc("", <<>>)

\* The prompt built from the reason (the sole content of the request).
Prompt(reason) ==
    << "You are a helper that generates a short, formal report message to appeal or report a WhatsApp account.\n",
       "You MUST ONLY output the report text (no extra commentary, no signatures, no 'As an AI' lines).\n",
       "Reason: " >> \o reason \o
    << "\n",
       "Include the necessary details for a WhatsApp report: what happened in 2-4 concise paragraphs,",
       " include time, example messages (short), and a clear request for action (e.g., reinstate/ban/remove content).\n",
       "Keep it professional and concise (max ~200-300 words)." >>

\* generate_report_text once the executor call has settled with outcome o:
\* sync_call returns getattr(response, "text", str(response)) or raises, and
\* text.strip() raises AttributeError when the text is None.
generate_report_text(o) ==
    CASE o.kind = "raise" ->
           [raised |-> TRUE, exc |-> Exc("ConnectionError", o.val), text |-> <<>>]
      [] o.kind = "none" ->
           [raised |-> TRUE,
            exc |-> Exc("AttributeError", <<"'NoneType' object has no attribute 'strip'">>),
            text |-> <<>>]
      [] OTHER -> [raised |-> FALSE, exc |-> NoExc, text |-> Strip(o.val)]

\* Faulty variant: only network faults are caught.
ExceptConnectionErrorOnly(exc) == exc.type = "ConnectionError"

\* "except Exception as e" around the generator call: whether exc is caught.
ExceptException(exc) == TRUE

\* ------------------------------------------------------------------- state
VARIABLES
    tg_users,   \* table tg_users: a set of rows
    clock,      \* the store's now()
    chats,      \* per chat id, the bot's messages in that chat, in order
    tasks       \* the handlers started so far, in arrival order

vars == <<tg_users, clock, chats, tasks>>

\* main() sets app.bot_data["db_pool"] before polling starts.
db_pool == TRUE

Profiles ==
    {[username |-> "user_a", first_name |-> "Ann", last_name |-> "Lee"],
     [username |-> "user_b", first_name |-> "Bea", last_name |-> "Lee"]}
NoProfile == [username |-> "", first_name |-> "", last_name |-> ""]

Row(id, p, at) ==
    [id |-> id, username |-> p.username, first_name |-> p.first_name,
     last_name |-> p.last_name, started_at |-> at]

\* Rows a previous run of the bot may have left in the table.
SeedRow(id) == Row(id, CHOOSE p \in Profiles : p.username = "user_a", 0)

SeedSets == { {}, {2, 3} }

\* Faulty variant: ON CONFLICT (id) DO UPDATE.
InsertOrReplace(table, row) == {r \in table : r.id # row.id} \cup {row}

\* INSERT INTO tg_users ... ON CONFLICT (id) DO NOTHING
InsertOnConflictDoNothing(table, row) ==
    IF \E r \in table : r.id = row.id THEN table ELSE table \cup {row}

\* SELECT id FROM tg_users: the ids, in an order the store chooses.
SelectIds(table) ==
    LET ids == {r.id : r \in table}
    IN {o \in [1..Cardinality(ids) -> ids] : \A i, j \in DOMAIN o : o[i] = o[j] => i = j}

Task(kind, user) ==
    [kind |-> kind, user |-> user, pc |-> "done", reply |-> 0,
     data |-> <<>>, src |-> 0, cat |-> <<>>, reason |-> <<>>,
     outcome |-> NoOutcome, profile |-> NoProfile,
     args |-> <<>>, msg |-> <<>>, fetched |-> FALSE, user_ids |-> <<>>,
     sent |-> 0, failed |-> 0, attempts |-> <<>>]

Init ==
    /\ tg_users \in {{SeedRow(id) : id \in S} : S \in SeedSets}
    /\ clock = 1
    /\ chats = [u \in UserIds |-> <<>>]
    /\ tasks = <<>>

\* reply_text / send_message: a new message at the end of chat u.
Post(u, m) == [chats EXCEPT ![u] = Append(@, m)]
\* msg.edit_text(text, reply_markup=markup): message i of chat u is replaced.
EditText(u, i, m) == [chats EXCEPT ![u][i] = m]

\* Faulty variant: sync_call is called on the event-loop thread.
CallOnLoopThread(task) == task.kind = "callback" /\ task.pc = "generating"

\* loop.run_in_executor(None, sync_call): the blocking call runs on a worker
\* thread, so a handler waiting for it never occupies the event-loop thread.
OccupiesLoop(task) == FALSE

\* Handlers are coroutines of one event loop (concurrent_updates(True)): a
\* handler step runs when no blocking call holds the loop thread.
LoopFree == \A t \in DOMAIN tasks : ~OccupiesLoop(tasks[t])

CanArrive == Len(tasks) < MaxTasks /\ LoopFree

\* ------------------------------------------------------------------ inputs
SPAM == <<"s", "p", "a", "m">>
\* Category keys carried by tokens of buttons shown before the modelled
\* window: a known key, an unknown key holding a colon, and the empty key.
XY == <<"x", ":", "y">>
REGEN_BARE == <<"r", "e", "g", "e", "n">>
FOO == <<"f", "o", "o">>
\* Tokens of presses on buttons of older messages (q.data is None gives "").
StaleTokens ==
    {CAT_PREFIX \o SPAM, CAT_PREFIX \o XY, REGEN_PREFIX, REGEN_BARE, FOO}
\* context.args of /broadcast: the whitespace-separated words after the command.
HELLO == <<"H", "e", "l", "l", "o">>
ArgLists == { <<>>, <<HELLO, <<"a">> >> }

\* ---------------------------------------------------------------- handlers
\* start, lines 121-128: welcome text and main menu; the INSERT follows.
StartCmd(u, p) ==
    /\ CanArrive
    /\ chats' = Post(u, Message(WelcomeText, main_menu_keyboard))
    /\ tasks' = Append(tasks, [Task("start", u) EXCEPT
                                 !.pc = IF db_pool THEN "insert" ELSE "done",
                                 !.reply = Len(chats[u]) + 1, !.profile = p])
    /\ UNCHANGED <<tg_users, clock>>

\* start, lines 130-140: the INSERT ... ON CONFLICT (id) DO NOTHING statement.
StartInsert(t) ==
    /\ LoopFree
    /\ tasks[t].kind = "start" /\ tasks[t].pc = "insert"
    /\ tg_users' = InsertOnConflictDoNothing(
                       tg_users, Row(tasks[t].user, tasks[t].profile, clock))
    /\ clock' = clock + 1
    /\ tasks' = [tasks EXCEPT ![t].pc = "done"]
    /\ UNCHANGED chats

\* help_cb reached by the /help command (update.callback_query is None).
\* Its callback branch never runs: CallbackQueryHandler(callback_query_handler)
\* is registered for every callback, help_cb for the /help command only.
HelpCmd(u) ==
    /\ CanArrive
    /\ chats' = Post(u, Message(HelpCmdText, main_menu_keyboard))
    /\ tasks' = Append(tasks, [Task("help", u) EXCEPT !.reply = Len(chats[u]) + 1])
    /\ UNCHANGED <<tg_users, clock>>

StatusCmd(u) ==
    /\ CanArrive
    /\ chats' = Post(u, Message(StatusText, NoMarkup))
    /\ tasks' = Append(tasks, [Task("status", u) EXCEPT !.reply = Len(chats[u]) + 1])
    /\ UNCHANGED <<tg_users, clock>>

message_handler(u) ==
    /\ CanArrive
    /\ chats' = Post(u, Message(UseMenuText, main_menu_keyboard))
    /\ tasks' = Append(tasks, [Task("message", u) EXCEPT !.reply = Len(chats[u]) + 1])
    /\ UNCHANGED <<tg_users, clock>>

\* The branch of callback_query_handler that data selects.
Branch(data) ==
    IF StartsWith(data, CAT_PREFIX) THEN "cat"
    ELSE IF StartsWith(data, REGEN_PREFIX) THEN "regen"
    ELSE IF data = BACK_MENU THEN "back"
    ELSE IF data = HOME THEN "home"
    ELSE IF data = HELP THEN "help"
    ELSE "unknown"

\* The reply of the branches that do not generate.
HelpBranchReply == Message(HelpCallbackText, NoMarkup)

\* Faulty variant: an unknown token is answered like home.
UnknownAsHome == Message(HomeText, main_menu_keyboard)

UnknownBranchReply == Message(UnknownActionText, NoMarkup)

PlainReply(branch) ==
    CASE branch = "back" -> Message(BackText, main_menu_keyboard)
      [] branch = "home" -> Message(HomeText, main_menu_keyboard)
      [] branch = "help" -> HelpBranchReply
      [] OTHER -> UnknownBranchReply

\* callback_query_handler up to its first suspension on the generator (cat:
\* and regen: branches: the placeholder is posted and the remote call is
\* submitted), or to its end (the other branches).  q.answer() only clears
\* the button's loading state and changes nothing modelled here.
callback_query_handler(u, src, data) ==
    LET branch == Branch(data)
        base == [Task("callback", u) EXCEPT
                   !.data = data, !.src = src, !.reply = Len(chats[u]) + 1]
    IN /\ CanArrive
       /\ IF branch \in {"cat", "regen"}
          THEN LET cat == SplitOnce(data)
                   reason == ReasonFor(cat)
               IN /\ chats' = Post(u, Message(IF branch = "cat" THEN GeneratingText
                                              ELSE RegeneratingText, NoMarkup))
                  /\ tasks' = Append(tasks, [base EXCEPT
                                 !.pc = "generating", !.cat = cat,
                                 !.reason = reason])
          ELSE /\ chats' = Post(u, PlainReply(branch))
               /\ tasks' = Append(tasks, base)
       /\ UNCHANGED <<tg_users, clock>>

\* A press: on a button of an older message (src = 0), or on a button of
\* message src of the presser's chat.
Press(u) ==
    \/ \E data \in StaleTokens : callback_query_handler(u, 0, data)
    \/ \E src \in DOMAIN chats[u] :
         \E data \in TokensOf(chats[u][src].markup) : callback_query_handler(u, src, data)

\* The executor's call settles: the handler's await can complete.
RemoteSettle(t, o) ==
    /\ tasks[t].kind = "callback" /\ tasks[t].pc = "generating"
    /\ tasks' = [tasks EXCEPT ![t].pc = "settled", ![t].outcome = o]
    /\ UNCHANGED <<tg_users, clock, chats>>

\* Faulty variant: the category is read back from a slot shared by the chat's
\* presses, which holds the category of the latest press.
SessionLastCategory(t) ==
    LET same == {i \in DOMAIN tasks :
                    /\ tasks[i].user = tasks[t].user /\ tasks[i].kind = "callback"
                    /\ Branch(tasks[i].data) \in {"cat", "regen"}}
        last == CHOOSE i \in same : \A j \in same : j <= i
    IN tasks[last].cat

\* cat after the await: the local variable of this handler's own coroutine.
LocalCat(t) == tasks[t].cat

\* callback_query_handler resumed after the await, lines 168-175 / 182-188.
GenResume(t) ==
    LET task == tasks[t]
        res == generate_report_text(task.outcome)
        branch == Branch(task.data)
    IN /\ LoopFree
       /\ task.kind = "callback" /\ task.pc = "settled"
       /\ IF res.raised
          THEN IF ExceptException(res.exc)
               THEN /\ chats' = EditText(task.user, task.reply,
                                   Message(IF branch = "cat"
                                           THEN ErrorGeneratingText(res.exc)
                                           ELSE ErrorRegeneratingText(res.exc),
                                           NoMarkup))
                    /\ tasks' = [tasks EXCEPT ![t].pc = "done"]
               ELSE /\ tasks' = [tasks EXCEPT ![t].pc = "unhandled"]
                    /\ UNCHANGED chats
          ELSE /\ chats' = EditText(task.user, task.reply,
                              Message(res.text, report_item_keyboard(LocalCat(t))))
               /\ tasks' = [tasks EXCEPT ![t].pc = "done"]
       /\ UNCHANGED <<tg_users, clock>>

\* -------------------------------------------------------------- broadcast
\* Faulty variant: no allow-list test.
EveryoneAuthorized(uid) == TRUE

\* "user.id not in ADMIN_IDS" is the rejection test.
Authorized(uid) == uid \in ADMIN_IDS

\* Faulty variant: no test of the body.
NeverEmpty(msg) == FALSE

\* msg = " ".join(context.args).strip();  "if not msg"
IsEmpty(msg) == msg = <<>>

\* broadcast_cmd, lines 206-221: the checks before the registry is read.
broadcast_cmd(u, args) ==
    LET msg == Strip(Join(args))
        base == [Task("broadcast", u) EXCEPT
                   !.args = args, !.reply = Len(chats[u]) + 1]
    IN /\ CanArrive
       /\ IF ~Authorized(u)
          THEN /\ chats' = Post(u, Message(NotAuthorizedText, NoMarkup))
               /\ tasks' = Append(tasks, base)
          ELSE IF IsEmpty(msg)
          THEN /\ chats' = Post(u, Message(UsageText, NoMarkup))
               /\ tasks' = Append(tasks, [base EXCEPT !.msg = msg])
          ELSE IF ~db_pool
          THEN /\ chats' = Post(u, Message(DbNotReadyText, NoMarkup))
               /\ tasks' = Append(tasks, [base EXCEPT !.msg = msg])
          ELSE /\ chats' = chats
               /\ tasks' = Append(tasks, [base EXCEPT !.msg = msg, !.pc = "fetch"])
       /\ UNCHANGED <<tg_users, clock>>

\* lines 223-230: the SELECT, then the announcement of the recipient count.
BroadcastFetch(t) ==
    /\ LoopFree
    /\ tasks[t].kind = "broadcast" /\ tasks[t].pc = "fetch"
    /\ \E user_ids \in SelectIds(tg_users) :
         /\ chats' = Post(tasks[t].user,
                          Message(BroadcastingText(Len(user_ids)), NoMarkup))
         /\ tasks' = [tasks EXCEPT ![t].pc = "loop", ![t].fetched = TRUE,
                                   ![t].user_ids = user_ids,
                                   ![t].reply = Len(chats[tasks[t].user]) + 1]
    /\ UNCHANGED <<tg_users, clock>>

\* Faulty variant: the loop follows the table, so ids registered after the
\* SELECT join the list.
LiveRecipients(t) ==
    LET snap == tasks[t].user_ids
        new == {r.id : r \in tg_users} \ {snap[i] : i \in DOMAIN snap}
        extra == CHOOSE o \in [1..Cardinality(new) -> new] :
                     \A i, j \in DOMAIN o : i < j => o[i] < o[j]
    IN snap \o extra

\* "for uid in user_ids": the list built once from the rows of the SELECT.
Recipients(t) == tasks[t].user_ids

\* Faulty variant: a delivery that raises ends the loop.
AbortOnFailure(task, uid) ==
    [task EXCEPT !.failed = @ + 1, !.pc = "report",
                 !.attempts = Append(@, [uid |-> uid, ok |-> FALSE])]

\* The loop's state after a delivery raised: "except Exception: failed += 1".
OnDeliveryFailure(task, uid) ==
    [task EXCEPT !.failed = @ + 1,
                 !.attempts = Append(@, [uid |-> uid, ok |-> FALSE])]

\* lines 231-236: one pass of the loop body; the delivery succeeds or raises.
BroadcastSend(t, ok) ==
    LET task == tasks[t]
        i == Len(task.attempts) + 1
    IN /\ LoopFree
       /\ task.kind = "broadcast" /\ task.pc = "loop"
       /\ i <= Len(Recipients(t))
       /\ LET uid == Recipients(t)[i]
          IN IF ok
             THEN /\ chats' = Post(uid, Message(task.msg, NoMarkup))
                  /\ tasks' = [tasks EXCEPT
                        ![t].sent = @ + 1,
                        ![t].attempts = Append(@, [uid |-> uid, ok |-> TRUE])]
             ELSE /\ chats' = chats
                  /\ tasks' = [tasks EXCEPT ![t] = OnDeliveryFailure(task, uid)]
       /\ UNCHANGED <<tg_users, clock>>

\* line 237: the loop is over, the counts are reported.
BroadcastReport(t) ==
    LET task == tasks[t]
    IN /\ LoopFree
       /\ task.kind = "broadcast"
       /\ \/ task.pc = "report"
          \/ task.pc = "loop" /\ Len(task.attempts) = Len(Recipients(t))
       /\ chats' = Post(task.user, Message(DoneText(task.sent, task.failed), NoMarkup))
       /\ tasks' = [tasks EXCEPT ![t].pc = "done",
                                 ![t].reply = Len(chats[task.user]) + 1]
       /\ UNCHANGED <<tg_users, clock>>

\* ------------------------------------------------------------ specification
Next ==
    \/ \E u \in Senders, p \in Profiles : StartCmd(u, p)
    \/ \E t \in DOMAIN tasks : StartInsert(t)
    \/ \E u \in Senders : HelpCmd(u)
    \/ \E u \in Senders : StatusCmd(u)
    \/ \E u \in Senders : message_handler(u)
    \/ \E u \in Senders : Press(u)
    \/ \E t \in DOMAIN tasks, o \in RemoteOutcomes : RemoteSettle(t, o)
    \/ \E t \in DOMAIN tasks : GenResume(t)
    \/ \E u \in Senders, args \in ArgLists : broadcast_cmd(u, args)
    \/ \E t \in DOMAIN tasks : BroadcastFetch(t)
    \/ \E t \in DOMAIN tasks, ok \in BOOLEAN : BroadcastSend(t, ok)
    \/ \E t \in DOMAIN tasks : BroadcastReport(t)

Spec == Init /\ [][Next]_vars

\* The event loop resumes a handler once the call it awaits has completed.
\* Nothing makes the remote call itself settle (the code sets no timeout).
Fairness ==
    \A t \in 1..MaxTasks : WF_vars(t \in DOMAIN tasks /\ GenResume(t))

LiveSpec == Init /\ [][Next]_vars /\ Fairness

\* ================================================================== claims
ReplyOf(t) == chats[tasks[t].user][tasks[t].reply]

IsGen(t) == tasks[t].kind = "callback" /\ Branch(tasks[t].data) \in {"cat", "regen"}
\* The key a cat:/regen: token carries: the token without its prefix.
KeyOf(data) ==
    IF StartsWith(data, CAT_PREFIX) THEN SubSeq(data, Len(CAT_PREFIX) + 1, Len(data))
    ELSE SubSeq(data, Len(REGEN_PREFIX) + 1, Len(data))
GenFailed(t) == IsGen(t) /\ tasks[t].pc = "done" /\ tasks[t].outcome.kind \in {"raise", "none"}
GenSucceeded(t) == IsGen(t) /\ tasks[t].pc = "done" /\ tasks[t].outcome.kind \in {"text", "notext"}
\* s occurs in text as a contiguous run of pieces.
Contains(text, s) ==
    \E i \in 0..(Len(text) - Len(s)) : SubSeq(text, i + 1, i + Len(s)) = s

\* C1: when the generator call of a cat:/regen: press raises, the message
\* finally displayed for the press is an error text containing the fault
\* description and carries the Regenerate/Back/Home menu for the category.
C1_ErrorCarriesActionMenu ==
    \A t \in DOMAIN tasks :
        GenFailed(t) =>
            /\ Contains(ReplyOf(t).text, generate_report_text(tasks[t].outcome).exc.msg)
            /\ ReplyOf(t).markup = report_item_keyboard(KeyOf(tasks[t].data))

\* C2: a Regenerate press on the report of a successful generation for key c
\* invokes the generator with the same reason as the original press, and its
\* report again offers Regenerate bound to c.
PressedRegenerateOf(t2, t1) ==
    /\ GenSucceeded(t1) /\ tasks[t2].kind = "callback"
    /\ tasks[t2].user = tasks[t1].user /\ tasks[t2].src = tasks[t1].reply
    /\ Branch(tasks[t2].data) = "regen"

C2_RegenerateSameCategory ==
    \A t1, t2 \in DOMAIN tasks :
        PressedRegenerateOf(t2, t1) =>
            LET c == KeyOf(tasks[t1].data)
            IN /\ tasks[t2].data = REGEN_PREFIX \o c
               /\ tasks[t2].cat = c
               /\ tasks[t2].reason = tasks[t1].reason
               /\ GenSucceeded(t2) =>
                     ReplyOf(t2).markup[1][1] = Button(<<"Regenerate">>, REGEN_PREFIX \o c)

C2_Witness ==
    \E t1, t2 \in DOMAIN tasks :
        /\ PressedRegenerateOf(t2, t1) /\ GenSucceeded(t2)
        /\ tasks[t1].data = CAT_PREFIX \o SPAM
        /\ tasks[t2].reason = <<"Spam report">>

\* C3: /broadcast by a caller outside the admin allow-list delivers nothing,
\* replies with the authorization rejection and changes no state: the step
\* that handles it only appends the rejection to the caller's chat, and the
\* handler never reads the registry or attempts a delivery afterwards.
C3_NonAdminBroadcastRejected ==
    [][\A t \in DOMAIN tasks' :
          (tasks'[t].kind = "broadcast" /\ tasks'[t].user \notin ADMIN_IDS) =>
             /\ tasks'[t].pc = "done"
             /\ ~tasks'[t].fetched /\ tasks'[t].attempts = <<>> /\ tasks'[t].sent = 0
             /\ chats'[tasks'[t].user][tasks'[t].reply] = Message(NotAuthorizedText, NoMarkup)
             /\ t \notin DOMAIN tasks =>
                   /\ tg_users' = tg_users /\ clock' = clock
                   /\ chats' = Post(tasks'[t].user, Message(NotAuthorizedText, NoMarkup))
                   /\ tasks' = Append(tasks, tasks'[t])]_vars

C3_Witness ==
    \E t \in DOMAIN tasks :
        /\ tasks[t].kind = "broadcast" /\ tasks[t].user \notin ADMIN_IDS
        /\ tasks[t].args # <<>> /\ tg_users # {}
        /\ ReplyOf(t).text = NotAuthorizedText

\* C4 (as claimed): /broadcast with an empty body returns the usage error and
\* performs zero deliveries, never reading the registry.
EmptyBody(t) == tasks[t].kind = "broadcast" /\ Strip(Join(tasks[t].args)) = <<>>

C4_EmptyBodyUsageError ==
    \A t \in DOMAIN tasks :
        EmptyBody(t) =>
            /\ tasks[t].pc = "done" /\ ~tasks[t].fetched /\ tasks[t].attempts = <<>>
            /\ ReplyOf(t) = Message(UsageText, NoMarkup)

\* C4 (amended): /broadcast with an empty body performs zero deliveries and
\* never reads the registry; an admin caller gets the usage error, any other
\* caller the authorization rejection (the admin check comes first).
C4_EmptyBodyNoDelivery ==
    \A t \in DOMAIN tasks :
        EmptyBody(t) =>
            /\ tasks[t].pc = "done" /\ ~tasks[t].fetched /\ tasks[t].attempts = <<>>
            /\ ReplyOf(t) = Message(IF tasks[t].user \in ADMIN_IDS THEN UsageText
                                    ELSE NotAuthorizedText, NoMarkup)

C4_Witness ==
    \E t \in DOMAIN tasks :
        /\ EmptyBody(t) /\ tasks[t].user \in ADMIN_IDS /\ tg_users # {}
        /\ ReplyOf(t).text = UsageText

\* C5: an authorized, non-empty broadcast attempts one delivery per id read
\* from the registry, in the order read; a failed delivery is counted and the
\* loop goes on; the report has Sent + Failed = number of ids read, Failed =
\* number of failed deliveries, and the ids read are the registered ids.
Range(f) == {f[i] : i \in DOMAIN f}

BroadcastCounts(task) ==
    LET a == task.attempts
        ids == task.user_ids
        nfail == Cardinality({i \in DOMAIN a : ~a[i].ok})
    IN /\ Len(a) <= Len(ids)
       /\ \A i \in DOMAIN a : a[i].uid = ids[i]
       /\ task.failed = nfail /\ task.sent = Len(a) - nfail
       /\ task.pc \in {"loop", "done"}
       /\ task.pc = "done" =>
             /\ Len(a) = Len(ids)
             /\ task.sent + task.failed = Len(ids)

C5_BroadcastAttemptsEveryone ==
    [][\A t \in DOMAIN tasks' :
          (tasks'[t].kind = "broadcast" /\ tasks'[t].fetched) =>
             /\ BroadcastCounts(tasks'[t])
             /\ tasks'[t].pc = "done" =>
                   chats'[tasks'[t].user][tasks'[t].reply].text =
                       DoneText(tasks'[t].sent, tasks'[t].failed)
             /\ ~tasks[t].fetched =>
                   /\ Range(tasks'[t].user_ids) = {r.id : r \in tg_users}
                   /\ Len(tasks'[t].user_ids) = Cardinality(tg_users)]_vars

C5_Witness ==
    \E t \in DOMAIN tasks :
        /\ tasks[t].kind = "broadcast" /\ tasks[t].pc = "done"
        /\ Len(tasks[t].user_ids) = 3
        /\ ~tasks[t].attempts[1].ok /\ tasks[t].attempts[2].ok /\ tasks[t].attempts[3].ok
        /\ ReplyOf(t).text = <<"Done. Sent: ", "2", ", Failed: ", "1">>

\* C6: registering on /start is idempotent on the user id: rows are never
\* changed or removed, no two rows share an id, and once a /start handler has
\* finished a row with its user's id exists; so after several /start commands
\* of one id, sequential or concurrent, the one row holds the values of the
\* first INSERT executed.
C6_StartIdempotent ==
    [][/\ \A r \in tg_users : r \in tg_users'
       /\ \A r1, r2 \in tg_users' : r1.id = r2.id => r1 = r2
       /\ \A t \in DOMAIN tasks' :
             (tasks'[t].kind = "start" /\ tasks'[t].pc = "done") =>
                 \E r \in tg_users' : r.id = tasks'[t].user]_vars

\* Two concurrent /start of one id with different fields, both finished: the
\* row holds the fields of the handler whose INSERT ran first (here the
\* second to arrive).
C6_Witness ==
    /\ Len(tasks) >= 2
    /\ tasks[1].kind = "start" /\ tasks[2].kind = "start"
    /\ tasks[1].user = tasks[2].user /\ tasks[1].profile # tasks[2].profile
    /\ tasks[1].pc = "done" /\ tasks[2].pc = "done"
    /\ \E r \in tg_users :
          /\ r = Row(tasks[2].user, tasks[2].profile, 1)
          /\ \A q \in tg_users : q.id = r.id => q = r

\* C7: handling the help action (the help callback token, or /help) displays
\* the help text together with the main menu.
IsHelp(t) ==
    \/ tasks[t].kind = "help"
    \/ /\ tasks[t].kind = "callback" /\ tasks[t].data = HELP
       /\ tasks[t].src \in DOMAIN chats[tasks[t].user]
       /\ chats[tasks[t].user][tasks[t].src].markup = main_menu_keyboard

C7_HelpShowsMainMenu ==
    \A t \in DOMAIN tasks :
        IsHelp(t) =>
            /\ tasks[t].pc = "done"
            /\ ReplyOf(t).text \in {HelpCmdText, HelpCallbackText}
            /\ ReplyOf(t).markup = main_menu_keyboard

\* C8: a Regenerate press with no resolvable category (bare regen, or regen:
\* with an empty key) starts no generation and returns to the main menu.
C8_UnresolvableRegenGoesToMenu ==
    \A t \in DOMAIN tasks :
        (tasks[t].kind = "callback" /\ tasks[t].data \in {REGEN_BARE, REGEN_PREFIX}) =>
            /\ tasks[t].pc = "done" /\ tasks[t].outcome = NoOutcome
            /\ ReplyOf(t).markup = main_menu_keyboard

\* C9: every error path (generation failure, unauthorized broadcast, empty
\* broadcast, unknown callback token) re-displays a menu with its response.
IsErrorPath(t) ==
    \/ GenFailed(t)
    \/ tasks[t].kind = "broadcast" /\ tasks[t].user \notin ADMIN_IDS
    \/ EmptyBody(t)
    \/ tasks[t].kind = "callback" /\ Branch(tasks[t].data) = "unknown"

C9_ErrorPathsShowMenu ==
    \A t \in DOMAIN tasks :
        (IsErrorPath(t) /\ tasks[t].pc = "done") => ReplyOf(t).markup # NoMarkup

\* C10: every generation whose remote call has settled, by returning or by
\* raising, is eventually resolved: the handler ends and its placeholder has
\* become the report (keyboard attached) or the error text; no generator
\* failure escapes the handler or leaves the placeholder.
Resolved(t) ==
    /\ tasks[t].pc = "done"
    /\ LET res == generate_report_text(tasks[t].outcome)
       IN IF res.raised
          THEN /\ ReplyOf(t).text \in {ErrorGeneratingText(res.exc),
                                       ErrorRegeneratingText(res.exc)}
          ELSE /\ ReplyOf(t).text = res.text
               /\ ReplyOf(t).markup = report_item_keyboard(tasks[t].cat)

Outstanding(t) == IsGen(t) /\ tasks[t].pc = "generating"

PendingStepCanRun(t) ==
    /\ tasks[t].pc = "insert" => ENABLED StartInsert(t)
    /\ tasks[t].pc = "settled" => ENABLED GenResume(t)
    /\ tasks[t].pc = "fetch" => ENABLED BroadcastFetch(t)
    /\ tasks[t].pc \in {"loop", "report"} =>
          ENABLED (BroadcastReport(t) \/ \E ok \in BOOLEAN : BroadcastSend(t, ok))

NewUpdateCanRun(u) ==
    /\ ENABLED HelpCmd(u)
    /\ ENABLED Press(u)
    /\ \A p \in Profiles : ENABLED StartCmd(u, p)

C11_OthersRunWhileGenerating ==
    \A t \in DOMAIN tasks :
        /\ Outstanding(t) =>
              /\ ReplyOf(t).text \in {GeneratingText, RegeneratingText}
              /\ tasks[t].outcome = NoOutcome
              /\ ~ENABLED GenResume(t)
              /\ \A t2 \in DOMAIN tasks :
                    tasks[t2].user # tasks[t].user => PendingStepCanRun(t2)
              /\ Len(tasks) < MaxTasks =>
                    \A u \in Senders \ {tasks[t].user} : NewUpdateCanRun(u)
        /\ (IsGen(t) /\ tasks[t].pc \notin {"generating", "settled"}) =>
              /\ tasks[t].pc = "done"
              /\ tasks[t].outcome \in RemoteOutcomes

\* A generation of chat 1 is still outstanding after a later press of chat 2
\* has been generated and displayed.
C11_Witness ==
    /\ Len(tasks) >= 2
    /\ Outstanding(1) /\ tasks[1].user = 1
    /\ GenSucceeded(2) /\ tasks[2].user = 2
    /\ ReplyOf(2).markup = report_item_keyboard(tasks[2].cat)

\* C12: for every successful generator outcome, the text displayed in the
\* report message is the generator's output without its leading and trailing
\* whitespace, and nothing else.
IsTrimOf(r, s) ==
    \E i, j \in 0..Len(s) :
        /\ i + j <= Len(s)
        /\ r = SubSeq(s, i + 1, Len(s) - j)
        /\ \A k \in 1..i : s[k] \in Whitespace
        /\ \A k \in (Len(s) - j + 1)..Len(s) : s[k] \in Whitespace
        /\ r # <<>> => (r[1] \notin Whitespace /\ r[Len(r)] \notin Whitespace)

Unrecognized(data) ==
    /\ ~StartsWith(data, <<"c", "a", "t", ":">>)
    /\ ~StartsWith(data, <<"r", "e", "g", "e", "n", ":">>)
    /\ data \notin {BACK_MENU, HOME, HELP}

C13_UnknownTokenNoStateChange ==
    [][\A t \in DOMAIN tasks' :
          (tasks'[t].kind = "callback" /\ Unrecognized(tasks'[t].data)) =>
             /\ tasks'[t].pc = "done" /\ tasks'[t].outcome = NoOutcome
             /\ chats'[tasks'[t].user][tasks'[t].reply].text = UnknownActionText
             /\ t \notin DOMAIN tasks =>
                   /\ tg_users' = tg_users /\ clock' = clock
                   /\ tasks' = Append(tasks, tasks'[t])
                   /\ chats' = Post(tasks'[t].user, Message(UnknownActionText, NoMarkup))]_vars

C13_Witness ==
    \E t \in DOMAIN tasks :
        /\ tasks[t].kind = "callback" /\ tasks[t].data = FOO /\ tg_users # {}
        /\ ReplyOf(t).text = UnknownActionText
        /\ \E t2 \in DOMAIN tasks : Outstanding(t2)

\* C14: the response to /start is the welcome text with a main menu of one
\* row per category, in order, each one button labelled with the category's
\* name and carrying "cat:" + key (so exactly one button per category, whose
\* press selects that category), followed by one row holding the Help button.
IsMainMenu(kb) ==
    LET n == Len(REPORT_CATEGORIES)
    IN /\ Len(kb) = n + 1
       /\ \A i \in 1..n :
             /\ Len(kb[i]) = 1
             /\ kb[i][1].label = REPORT_CATEGORIES[i].v
             /\ kb[i][1].callback_data = <<"c", "a", "t", ":">> \o REPORT_CATEGORIES[i].k
             /\ Branch(kb[i][1].callback_data) = "cat"
             /\ SplitOnce(kb[i][1].callback_data) = REPORT_CATEGORIES[i].k
             /\ Cardinality({j \in 1..n :
                    kb[j][1].callback_data = kb[i][1].callback_data}) = 1
       /\ kb[n + 1] = << [label |-> <<"Help">>, callback_data |-> <<"h", "e", "l", "p">>] >>

C14_StartShowsWelcomeAndMainMenu ==
    \A t \in DOMAIN tasks :
        tasks[t].kind = "start" =>
            /\ ReplyOf(t).text = WelcomeText
            /\ IsMainMenu(ReplyOf(t).markup)

C14_Witness ==
    \E t \in DOMAIN tasks :
        /\ tasks[t].kind = "start" /\ tasks[t].pc = "done"
        /\ Len(ReplyOf(t).markup) = 6
        /\ ReplyOf(t).markup[5][1].callback_data =
              <<"c", "a", "t", ":", "m", "a", "l", "w", "a", "r", "e">>
        /\ Len(chats[tasks[t].user]) > tasks[t].reply

\* C15: the user registry is append-only. Every step keeps every existing row
\* with all its fields; a step that adds a row is the INSERT of a /start
\* handler, it adds exactly that sender's row, and the sender had no row. No
\* other step (callback presses, generation, /help, /status, text messages,
\* /broadcast in any of its outcomes) changes the registry at all.
RegisteredBy(t) ==
    /\ t \in DOMAIN tasks
    /\ tasks[t].kind = "start" /\ tasks[t].pc = "insert"
    /\ tasks'[t].pc = "done"
    /\ ~ \E r \in tg_users : r.id = tasks[t].user
    /\ tg_users' \ tg_users =
          {[id |-> tasks[t].user, username |-> tasks[t].profile.username,
            first_name |-> tasks[t].profile.first_name,
            last_name |-> tasks[t].profile.last_name, started_at |-> clock]}

C15_RegistryAppendOnly ==
    [][/\ tg_users \subseteq tg_users'
       /\ \A r1, r2 \in tg_users' : r1.id = r2.id => r1 = r2
       /\ tg_users' # tg_users => \E t \in DOMAIN tasks : RegisteredBy(t)]_vars

C15_Witness ==
    /\ \E r \in tg_users : r.id = 1 /\ r.started_at > 0
    /\ \A id \in {2, 3} : \E r \in tg_users : r.id = id /\ r.started_at = 0
    /\ \E t \in DOMAIN tasks :
          /\ tasks[t].kind = "broadcast" /\ tasks[t].pc = "done"
          /\ tasks[t].failed > 0 /\ tasks[t].sent > 0

\* C16: with several cat:/regen: presses of one conversation in flight for
\* different categories, in any interleaving of their generation calls, each
\* press generates for the category its own token carries (its key and its
\* reason come from that token), and the report message it
\* produces carries the Regenerate token of that same category: no press
\* sees the category of another press.
OwnCategory(t) ==
    LET key == KeyOf(tasks[t].data)
    IN /\ tasks[t].cat = key
       /\ tasks[t].reason = ReasonFor(key)
       /\ GenSucceeded(t) =>
             /\ ReplyOf(t).markup[1][1].callback_data = <<"r", "e", "g", "e", "n", ":">> \o key
             /\ \A d \in TokensOf(ReplyOf(t).markup) :
                   Branch(d) = "regen" => KeyOf(d) = key

C16_EachPressKeepsItsCategory ==
    \A t \in DOMAIN tasks : IsGen(t) => OwnCategory(t)

C16_Witness ==
    /\ Len(tasks) = 2
    /\ IsGen(1) /\ IsGen(2) /\ tasks[1].user = tasks[2].user
    /\ KeyOf(tasks[1].data) = <<"s", "p", "a", "m">>
    /\ KeyOf(tasks[2].data) = <<"x", ":", "y">>
    /\ tasks[1].pc = "settled" /\ tasks[1].outcome.kind = "text"
    /\ GenSucceeded(2)
    /\ ReplyOf(2).markup[1][1].callback_data = <<"r", "e", "g", "e", "n", ":", "x", ":", "y">>

\* C17: the recipients of a broadcast are a snapshot taken once, before the
\* first delivery. The list read is the ids registered at the read, each once,
\* and its length is the count announced; it never changes afterwards; the
\* deliveries attempted are, in order, the ids of a prefix of that list, so an
\* id registered while the loop runs is not attempted; and when the broadcast
\* is done every id of the list was attempted once and Sent + Failed is the
\* announced count.
TakenAtRead(t) ==
    LET b == tasks'[t]
    IN IF tasks[t].fetched
       THEN b.user_ids = tasks[t].user_ids
       ELSE /\ {b.user_ids[i] : i \in DOMAIN b.user_ids} = {r.id : r \in tg_users}
            /\ b.attempts = <<>>
            /\ chats'[b.user][b.reply].text =
                  <<"Broadcasting to ", ToString(Len(b.user_ids)), " users...">>

SnapshotFollowed(b) ==
    /\ \A i, j \in DOMAIN b.user_ids : b.user_ids[i] = b.user_ids[j] => i = j
    /\ Len(b.attempts) <= Len(b.user_ids)
    /\ \A i \in DOMAIN b.attempts : b.attempts[i].uid = b.user_ids[i]
    /\ b.sent + b.failed = Len(b.attempts)
    /\ b.pc = "done" => b.sent + b.failed = Len(b.user_ids)

C17_BroadcastRecipientsAreSnapshot ==
    [][\A t \in DOMAIN tasks' :
          (tasks'[t].kind = "broadcast" /\ tasks'[t].fetched) =>
             /\ TakenAtRead(t)
             /\ SnapshotFollowed(tasks'[t])
             /\ \E i \in DOMAIN chats'[tasks'[t].user] :
                   chats'[tasks'[t].user][i].text =
                      <<"Broadcasting to ", ToString(Len(tasks'[t].user_ids)), " users...">>
             /\ tasks'[t].pc = "done" =>
                   chats'[tasks'[t].user][tasks'[t].reply].text =
                      <<"Done. Sent: ", ToString(tasks'[t].sent),
                        ", Failed: ", ToString(tasks'[t].failed)>>]_vars

\* A user registered while the loop was between its two deliveries.
C17_Witness ==
    \E t \in DOMAIN tasks :
        /\ tasks[t].kind = "broadcast" /\ tasks[t].pc = "loop"
        /\ Len(tasks[t].user_ids) = 2 /\ Len(tasks[t].attempts) = 1
        /\ \E r \in tg_users :
              /\ r.id = 1 /\ r.started_at > 0
              /\ \A i \in DOMAIN tasks[t].user_ids : tasks[t].user_ids[i] # 1
====
